---- MODULE Spec2Model ----
(***************************************************************************)
(* Model of the AI gateway route, frontend/app/api/ai/route.ts: the POST   *)
(* handler (identity, usage reset, usage fetch, quota gate, request body,  *)
(* backend call, usage increment, streaming response) and the two stream   *)
(* loops that turn backend chunks into fragments of the response body.     *)
(*                                                                         *)
(* One action models one resumption of the async handler: the awaited call *)
(* settles and the handler runs on to its next await or to its return.     *)
(* The output ReadableStream is modelled with the queue semantics of the   *)
(* Streams standard (enqueue / close / error / read), because the handler  *)
(* only talks to the caller through its controller.                        *)
(***************************************************************************)
EXTENDS Integers, Sequences, FiniteSets, TLC

\* ---------------------------------------------------------------- bounds
MaxChunks == 2          \* backend chunks delivered to one stream loop
MaxItems == 2           \* entries at the top of a file tree
MaxTurns == 2           \* turns of a conversation
MaxGen == 2             \* largest generation count the profile store starts with

Reqs == {"r1", "r2"}    \* requests of one user

\* ------------------------------------------------------- values and tables
Undefined == -1         \* JavaScript undefined, for a numeric field
NoTier == "undefined"   \* JavaScript undefined, for the tier name

\* TIERS of "@/lib/tiers": tier name -> settings (limits scaled down).
TIERS ==
  [FREE |-> [generations |-> 1, maxTokens |-> 10, anthropicModel |-> "haiku"],
   PRO  |-> [generations |-> 2, maxTokens |-> 20, anthropicModel |-> "sonnet"]]

TierNames == {"FREE", "PRO", "GOLD"}      \* GOLD: a name TIERS does not hold

\* characters of a generated text and their UTF-8 encodings
Chars == {"a", "e_acute"}
Utf8(c) == IF c = "a" THEN <<97>> ELSE <<195, 169>>

RECURSIVE Flatten(_)
Flatten(ss) == IF ss = <<>> THEN <<>> ELSE Head(ss) \o Flatten(Tail(ss))

\* new TextEncoder().encode(text)
Encode(text) == Flatten([i \in 1..Len(text) |-> Utf8(text[i])])

Count(s, x) == Cardinality({i \in 1..Len(s) : s[i] = x})
Index(s, x) == IF \E i \in 1..Len(s) : s[i] = x
               THEN CHOOSE i \in 1..Len(s) : s[i] = x /\ \A j \in 1..(i-1) : s[j] # x
               ELSE 0

\* ------------------------------------------------------------ file trees
\* Strings are sequences of tokens, and a text is the sequence of its lines.
\* ignoredFiles and ignoredFolders of "@/components/editor/AIChat/lib/ignored-paths"
ignoredFiles == {<<"*", ".log">>, <<".env">>}
ignoredFolders == {<<"node_modules">>, <<".git">>}

\* TFile and TFolder
File(name) == [type |-> "file", name |-> name, children |-> <<>>]
Folder(name, children) == [type |-> "folder", name |-> name, children |-> children]

\* a files argument that is undefined
NoItems == <<[type |-> "undefined", name |-> <<>>, children |-> <<>>]>>

EmptyString == << <<>> >>
NoFilesAvailable == << <<"No files available">> >>

\* pattern.replace("*", ""): the first "*" is taken out
ReplaceStar(pattern) ==
  LET i == Index(pattern, "*")
  IN IF i = 0 THEN pattern
     ELSE SubSeq(pattern, 1, i - 1) \o SubSeq(pattern, i + 1, Len(pattern))

\* name.endsWith(suffix)
EndsWith(name, suffix) ==
  /\ Len(suffix) <= Len(name)
  /\ SubSeq(name, Len(name) - Len(suffix) + 1, Len(name)) = suffix

\* ignoredFiles.some(pattern => name.endsWith(pattern.replace("*", "")) || name === pattern)
IgnoredFile(name) ==
  \E pattern \in ignoredFiles : EndsWith(name, ReplaceStar(pattern)) \/ name = pattern

\* ignoredFolders.some(folder => folder === name)
IgnoredFolder(name) == \E folder \in ignoredFolders : folder = name

\* names in the order of localeCompare
Collation == << <<".env">>, <<"app", ".log">>, <<"node_modules">> >>
localeCompare(a, b) == Index(Collation, a) - Index(Collation, b)

\* variant: the items are left in the order they came in
CompareNone(a, b) == 0

\* the comparator of the sort: folders first, then by name
Compare(a, b) ==
  IF a.type = b.type THEN localeCompare(a.name, b.name)
  ELSE IF a.type = "folder" THEN -1 ELSE 1

\* [...items].sort(Compare), a stable sort
RECURSIVE Insert(_, _)
Insert(sorted, item) ==
  IF sorted = <<>> THEN <<item>>
  ELSE IF Compare(item, Head(sorted)) < 0 THEN <<item>> \o sorted
  ELSE <<Head(sorted)>> \o Insert(Tail(sorted), item)

RECURSIVE Sort(_)
Sort(items) ==
  IF items = <<>> THEN <<>>
  ELSE Insert(Sort(SubSeq(items, 1, Len(items) - 1)), items[Len(items)])

\* strings.join("\n"), for strings that are not empty
Join(strings) == IF strings = <<>> THEN EmptyString ELSE Flatten(strings)

Branch == "|-- "
Indent == "|   "

\* formatFileStructure(items, prefix); an item that is left out maps to null,
\* here the text of no lines, which filter(Boolean) drops
RECURSIVE formatFileStructure(_, _)
formatFileStructure(items, prefix) ==
  IF items = NoItems THEN NoFilesAvailable
  ELSE
    LET sortedItems == Sort(items)
        Line(item) ==
          IF item.type = "file" /\ ~IgnoredFile(item.name)
          THEN << prefix \o <<Branch>> \o item.name >>
          ELSE IF item.type = "folder" /\ ~IgnoredFolder(item.name)
          THEN << prefix \o <<Branch>> \o item.name \o <<"/">> >>
                 \o formatFileStructure(item.children, prefix \o <<Indent>>)
          ELSE <<>>
        mapped == [i \in 1..Len(sortedItems) |-> Line(sortedItems[i])]
        kept == SelectSeq(mapped, LAMBDA str : str # <<>>)
    IN Join(kept)

\* ------------------------------------------------------- the request body
SeqsUpTo(S, n) == UNION { [1..k -> S] : k \in 0..n }

NoBody == [messages |-> <<>>, isEditMode |-> FALSE, template |-> FALSE, files |-> NoItems]

\* a conversation turn; the content stands for the text of the i-th turn
Turn(i, role) == [role |-> role, content |-> <<"turn", i>>]
Roles == {"human", "assistant", "system"}
Conversations ==
  UNION { { [i \in 1..k |-> Turn(i, roles[i])] : roles \in [1..k -> Roles] } :
          k \in 0..MaxTurns }

\* file trees of two levels of folders; each name is one that is ignored for
\* a file or for a folder
Names == { <<"node_modules">>, <<"app", ".log">> }
TopNames == Names \cup { <<".env">> }
Leaves == { File(n) : n \in Names } \cup { Folder(n, <<>>) : n \in Names }
Nodes ==
  { File(n) : n \in TopNames }
    \cup { Folder(n, children) : n \in TopNames, children \in SeqsUpTo(Leaves, 2) }
Trees == SeqsUpTo(Nodes, MaxItems)

\* a chat request with one turn and no file tree, and an edit request that
\* has no turn
SampleBodies ==
  { [messages |-> <<Turn(1, "human")>>, isEditMode |-> FALSE, template |-> TRUE,
     files |-> NoItems],
    [messages |-> <<>>, isEditMode |-> TRUE, template |-> FALSE, files |-> NoItems] }

\* chat requests with every file tree, and one without a tree
FormatBodies ==
  { [messages |-> <<Turn(1, "human")>>, isEditMode |-> FALSE, template |-> TRUE,
     files |-> files] : files \in Trees \cup {NoItems} }

\* requests with every conversation, in either mode
DispatchBodies ==
  { [messages |-> messages, isEditMode |-> isEditMode, template |-> FALSE,
     files |-> NoItems] : messages \in Conversations, isEditMode \in BOOLEAN }

\* ------------------------------------------------------------------ state
VARIABLES
  processEnv,         \* process.env: the AWS credentials that are set now
  envAtLoad,          \* process.env as it was when the module was loaded
  useBedrockClient,   \* module constant, set when the module is loaded
  dbTier,             \* profile store: the caller's tier name
  dbGenerations,      \* profile store: the caller's generation count
  req,                \* per request: position and locals of POST
  stream              \* per request: the output ReadableStream and its loop

vars == <<processEnv, envAtLoad, useBedrockClient, dbTier, dbGenerations, req, stream>>

\* one entry of a request's log of outgoing calls and evaluations
Call(op, result) == [op |-> op, result |-> result]
Ops(log) == [i \in 1..Len(log) |-> log[i].op]
Made(r, op) == Count(Ops(req[r].calls), op)

NoRecord == [tier |-> NoTier, generations |-> Undefined]
NoSettings == [generations |-> 0, maxTokens |-> 0, anthropicModel |-> "none"]

NoStream ==
  [state |-> "none", closeRequested |-> FALSE, queue |-> <<>>,
   enqueued |-> <<>>, delivered |-> <<>>, ctrl |-> <<>>,
   loop |-> "none", backend |-> "none", seen |-> <<>>,
   cancelled |-> FALSE, seenAtCancel |-> 0]

NoSystemMessage == [templateContext |-> EmptyString, instructions |-> <<>>]
NoCommand == [backend |-> "none"]

InitReq ==
  [pc |-> "currentUser", calls |-> <<>>, dbUser |-> "none",
   userData |-> NoRecord, tierSettings |-> NoSettings,
   response |-> "none", responses |-> <<>>,
   body |-> NoBody, systemMessage |-> NoSystemMessage, command |-> NoCommand]

\* the four settings the Bedrock client needs
Credentials == {"AWS_ACCESS_KEY_ID", "AWS_SECRET_ACCESS_KEY", "AWS_REGION", "AWS_ARN"}

\* !!(AWS_ACCESS_KEY_ID && AWS_SECRET_ACCESS_KEY && AWS_REGION && AWS_ARN)
AllCredentials(env) ==
  /\ "AWS_ACCESS_KEY_ID" \in env
  /\ "AWS_SECRET_ACCESS_KEY" \in env
  /\ "AWS_REGION" \in env
  /\ "AWS_ARN" \in env

\* const bedrockClient = useBedrockClient ? new BedrockRuntimeClient(...) : null
bedrockClient == IF useBedrockClient THEN "BedrockRuntimeClient" ELSE "null"

\* a request that is not made
NoRequest == [InitReq EXCEPT !.pc = "none"]

\* the state after the module is loaded in an environment out of envs, when
\* the requests in arriving come in with a body out of bodies
Start(envs, arriving, bodies) ==
  /\ processEnv \in envs
  /\ envAtLoad = processEnv
  /\ useBedrockClient = AllCredentials(processEnv)
  /\ dbTier \in TierNames \cup {NoTier}
  /\ dbGenerations \in 0..MaxGen
  /\ \E body \in bodies :
       req = [r \in Reqs |-> IF r \in arriving THEN [InitReq EXCEPT !.body = body]
                             ELSE NoRequest]
  /\ stream = [r \in Reqs |-> NoStream]

\* an environment with every credential and one with none, for the two
\* backends; SpecEnv starts from every environment
LoadEnvs == {Credentials, {}}

Init == Start(LoadEnvs, {"r1"}, SampleBodies)

\* ------------------------------------------------- the handler's responses
\* return new Response(body, { status })
Respond(rq, status, body) ==
  [rq EXCEPT !.pc = "done",
             !.responses = Append(@, [status |-> status, body |-> body])]

\* what a failing call throws: an Error instance, or some other value
Throws == {"throw", "throwValue"}

\* variant: the catch clause answers with the generic message only
CatchGeneric(rq, thrown) ==
  Respond(rq, 500, <<"Internal Server Error">>)

\* the catch clause of POST, for any failure inside the try block:
\* error instanceof Error ? error.message : "Internal Server Error"
Catch(rq, thrown) ==
  Respond(rq, 500, IF thrown = "throw" THEN <<"error.message">>
                   ELSE <<"Internal Server Error">>)

Log(rq, op, result) == [rq EXCEPT !.calls = Append(@, Call(op, result))]

\* ----------------------------------------------------------- quota gate
\* TIERS[userData.tier as keyof typeof TIERS] || TIERS.FREE
TierLookup(tier) == IF tier \in DOMAIN TIERS THEN TIERS[tier] ELSE TIERS.FREE

\* variant: a missing number counts as being at the limit
GreaterEqClosed(a, b) == a = Undefined \/ b = Undefined \/ a >= b

\* JavaScript a >= b on a number or undefined: undefined compares false
GreaterEq(a, b) == a # Undefined /\ b # Undefined /\ a >= b

\* variant: the comparison written with > instead of >=
QuotaExceededStrict(userData, tierSettings) ==
  userData.generations # Undefined /\ userData.generations > tierSettings.generations

\* userData.generations >= tierSettings.generations
QuotaExceeded(userData, tierSettings) ==
  GreaterEq(userData.generations, tierSettings.generations)

\* `AI generation limit reached for your ${userData.tier || "FREE"} tier`
LimitReached(tier) ==
  <<"AI generation limit reached for your",
    IF tier = NoTier THEN "FREE" ELSE tier, "tier">>

\* variant: the missing user is not checked, the handler goes on
CurrentUserUnchecked(r) ==
  /\ req[r].pc = "currentUser"
  /\ \E res \in {"user", "null"} \cup Throws :
       LET rq == Log(req[r], "currentUser", res) IN
       req' = [req EXCEPT ![r] =
                 IF res \in Throws THEN Catch(rq, res)
                 ELSE [rq EXCEPT !.pc = "check-reset"]]
  /\ UNCHANGED <<processEnv, envAtLoad, useBedrockClient, dbTier, dbGenerations, stream>>

\* const user = await currentUser(); if (!user) return 401
CurrentUser(r) ==
  /\ req[r].pc = "currentUser"
  /\ \E res \in {"user", "null"} \cup Throws :
       LET rq == Log(req[r], "currentUser", res) IN
       req' = [req EXCEPT ![r] =
                 CASE res = "user"  -> [rq EXCEPT !.pc = "check-reset"]
                   [] res = "null"  -> Respond(rq, 401, <<"Unauthorized">>)
                   [] OTHER         -> Catch(rq, res)]
  /\ UNCHANGED <<processEnv, envAtLoad, useBedrockClient, dbTier, dbGenerations, stream>>

\* await fetch(".../api/user/check-reset"); a response that is not ok is logged
CheckReset(r) ==
  /\ req[r].pc = "check-reset"
  /\ \E res \in {"ok", "reset", "notok"} \cup Throws :
       LET rq == Log(req[r], "check-reset", res) IN
       /\ req' = [req EXCEPT ![r] =
                    IF res \in Throws THEN Catch(rq, res) ELSE [rq EXCEPT !.pc = "user"]]
       /\ dbGenerations' = IF res = "reset" THEN 0 ELSE dbGenerations
  /\ UNCHANGED <<processEnv, envAtLoad, useBedrockClient, dbTier, stream>>

\* const dbUser = await fetch(".../api/user?id=...")
FetchUser(r) ==
  /\ req[r].pc = "user"
  /\ \E res \in {"record", "errorBody", "notJson"} \cup Throws :
       LET rq == Log(req[r], "user", res) IN
       req' = [req EXCEPT ![r] =
                 IF res \in Throws THEN Catch(rq, res)
                 ELSE [rq EXCEPT !.pc = "json", !.dbUser = res,
                                 !.userData =
                                    IF res = "record"
                                    THEN [tier |-> dbTier, generations |-> dbGenerations]
                                    ELSE NoRecord]]
  /\ UNCHANGED <<processEnv, envAtLoad, useBedrockClient, dbTier, dbGenerations, stream>>

\* const userData = await dbUser.json(); tier settings; the quota comparison
UserJson(r) ==
  /\ req[r].pc = "json"
  /\ LET rq == req[r]
         settings == TierLookup(rq.userData.tier)
         gated == Log([rq EXCEPT !.tierSettings = settings], "gate",
                      IF QuotaExceeded(rq.userData, settings) THEN "exceeded" ELSE "pass")
     IN req' = [req EXCEPT ![r] =
                  IF rq.dbUser = "notJson" THEN Catch(Log(rq, "json", "throw"), "throw")
                  ELSE IF QuotaExceeded(rq.userData, settings)
                       THEN Respond(gated, 429, LimitReached(rq.userData.tier))
                       ELSE [gated EXCEPT !.pc = "request.json"]]
  /\ UNCHANGED <<processEnv, envAtLoad, useBedrockClient, dbTier, dbGenerations, stream>>

\* variant: the credentials are looked at again for every request
UseBedrockNow == AllCredentials(processEnv)

\* if (useBedrockClient && bedrockClient)
UseBedrock == useBedrockClient /\ bedrockClient # "null"

\* templateConfig ? `... ${files ? formatFileStructure(files) : "No files available"} ...` : ""
TemplateContext(body) ==
  IF body.template
  THEN IF body.files # NoItems THEN formatFileStructure(body.files, <<>>)
       ELSE NoFilesAvailable
  ELSE EmptyString

\* the system message; in edit mode it holds messages[0].content
SystemMessage(body) ==
  [templateContext |-> TemplateContext(body),
   instructions |-> IF body.isEditMode THEN body.messages[1].content ELSE <<>>]

\* messages.map(msg => ({ role: msg.role === "human" ? "user" : "assistant", content: msg.content }))
MapRoles(messages) ==
  [i \in 1..Len(messages) |->
     [role |-> IF messages[i].role = "human" THEN "user" ELSE "assistant",
      content |-> messages[i].content]]

Temperature == 7        \* temperature: 0.7, in tenths

\* the input of InvokeModelWithResponseStreamCommand
BedrockInput(rq) ==
  [backend |-> "bedrock",
   modelId |-> IF "AWS_ARN" \in processEnv THEN "process.env.AWS_ARN" ELSE "undefined",
   max_tokens |-> rq.tierSettings.maxTokens,
   temperature |-> Temperature,
   messages |-> <<[role |-> "user", content |-> <<"systemMessage">>]>>
                  \o MapRoles(rq.body.messages)]

\* the parameters of anthropicClient.messages.create
AnthropicParams(rq) ==
  [backend |-> "anthropic",
   model |-> rq.tierSettings.anthropicModel,
   max_tokens |-> rq.tierSettings.maxTokens,
   system |-> <<"systemMessage">>,
   messages |-> MapRoles(rq.body.messages),
   stream |-> TRUE]

\* await request.json(), the prompt, the choice of the backend, and the call
\* that is sent to it; messages[0].content of no turn is a TypeError
RequestJson(r) ==
  /\ req[r].pc = "request.json"
  /\ \E res \in {"ok"} \cup Throws :
       LET rq == Log(req[r], "request.json", res) IN
       req' = [req EXCEPT ![r] =
                 IF res \in Throws THEN Catch(rq, res)
                 ELSE IF rq.body.isEditMode /\ rq.body.messages = <<>>
                 THEN Catch(Log(rq, "systemMessage", "throw"), "throw")
                 ELSE [rq EXCEPT !.systemMessage = SystemMessage(rq.body),
                                 !.command = IF UseBedrock THEN BedrockInput(rq)
                                             ELSE AnthropicParams(rq),
                                 !.pc = IF UseBedrock THEN "bedrock.send"
                                        ELSE "anthropic.create"]]
  /\ UNCHANGED <<processEnv, envAtLoad, useBedrockClient, dbTier, dbGenerations, stream>>

\* variant: the response is returned without waiting for the increment
BedrockSendDetached(r) ==
  /\ req[r].pc = "bedrock.send"
  /\ \E res \in {"body", "nobody"} \cup Throws :
       LET rq == Log(req[r], "bedrock.send", res) IN
       /\ req' = [req EXCEPT ![r] =
                    IF res \in Throws THEN Catch(rq, res)
                    ELSE Respond([rq EXCEPT !.response = res], 200, <<"ReadableStream">>)]
       /\ stream' = [stream EXCEPT ![r] =
                       IF res \in Throws THEN @
                       ELSE [NoStream EXCEPT !.state = "readable",
                                             !.loop = "running", !.backend = "open"]]
  /\ UNCHANGED <<processEnv, envAtLoad, useBedrockClient, dbTier, dbGenerations>>

\* variant: a failed Bedrock call falls back to the Anthropic client
BedrockSendFallback(r) ==
  /\ req[r].pc = "bedrock.send"
  /\ \E res \in {"body", "nobody"} \cup Throws :
       LET rq == Log(req[r], "bedrock.send", res) IN
       req' = [req EXCEPT ![r] =
                 IF res \in Throws THEN [rq EXCEPT !.pc = "anthropic.create"]
                 ELSE [rq EXCEPT !.pc = "increment-generations", !.response = res]]
  /\ UNCHANGED <<processEnv, envAtLoad, useBedrockClient, dbTier, dbGenerations, stream>>

\* const response = await bedrockClient.send(command)
BedrockSend(r) ==
  /\ req[r].pc = "bedrock.send"
  /\ \E res \in {"body", "nobody"} \cup Throws :
       LET rq == Log(req[r], "bedrock.send", res) IN
       req' = [req EXCEPT ![r] =
                 IF res \in Throws THEN Catch(rq, res)
                 ELSE [rq EXCEPT !.pc = "increment-generations", !.response = res]]
  /\ UNCHANGED <<processEnv, envAtLoad, useBedrockClient, dbTier, dbGenerations, stream>>

\* variant: the generation is counted although the call failed
AnthropicCreateCounted(r) ==
  /\ req[r].pc = "anthropic.create"
  /\ \E res \in {"stream"} \cup Throws :
       LET rq == Log(req[r], "anthropic.create", res) IN
       /\ req' = [req EXCEPT ![r] =
                    IF res \in Throws
                    THEN Catch(Log(rq, "increment-generations", "ok"), res)
                    ELSE [rq EXCEPT !.pc = "increment-generations", !.response = res]]
       /\ dbGenerations' = IF res \in Throws THEN dbGenerations + 1 ELSE dbGenerations
  /\ UNCHANGED <<processEnv, envAtLoad, useBedrockClient, dbTier, stream>>

\* const stream = await anthropicClient.messages.create({..., stream: true})
AnthropicCreate(r) ==
  /\ req[r].pc = "anthropic.create"
  /\ \E res \in {"stream"} \cup Throws :
       LET rq == Log(req[r], "anthropic.create", res) IN
       req' = [req EXCEPT ![r] =
                 IF res \in Throws THEN Catch(rq, res)
                 ELSE [rq EXCEPT !.pc = "increment-generations", !.response = res]]
  /\ UNCHANGED <<processEnv, envAtLoad, useBedrockClient, dbTier, dbGenerations, stream>>

\* ------------------------------------------- the output stream's controller
\* (ReadableStreamDefaultController of the Streams standard)
CanCloseOrEnqueue(s) == s.state = "readable" /\ ~s.closeRequested

\* controller.enqueue(fragment): throws a TypeError unless the stream is
\* readable and not closing
ControllerEnqueue(s, fragment) ==
  IF CanCloseOrEnqueue(s)
  THEN [threw |-> FALSE,
        s |-> [s EXCEPT !.queue = Append(@, fragment),
                        !.enqueued = Append(@, fragment),
                        !.ctrl = Append(@, "enqueue")]]
  ELSE [threw |-> TRUE, s |-> [s EXCEPT !.ctrl = Append(@, "enqueue")]]

\* controller.close(): the stream closes once its queue is drained
ControllerClose(s) ==
  IF CanCloseOrEnqueue(s)
  THEN [threw |-> FALSE,
        s |-> [s EXCEPT !.closeRequested = TRUE,
                        !.state = IF s.queue = <<>> THEN "closed" ELSE "readable",
                        !.ctrl = Append(@, "close")]]
  ELSE [threw |-> TRUE, s |-> [s EXCEPT !.ctrl = Append(@, "close")]]

\* controller.error(e): drops the queued chunks and errors the stream;
\* does nothing on a stream that is no longer readable
ControllerError(s) ==
  LET called == [s EXCEPT !.ctrl = Append(@, "error")] IN
  IF s.state = "readable"
  THEN [called EXCEPT !.queue = <<>>, !.state = "errored"]
  ELSE called

\* ------------------------------------------------------------ Bedrock path
Texts == {<<>>} \cup { <<c>> : c \in Chars }

BedrockChunk(bytes, type, delta, text) ==
  [bytes |-> bytes, type |-> type, delta |-> delta, text |-> text]

\* items of response.body: bytes is "none" (an item without chunk.bytes),
\* "garbage" (not JSON), "null" (the JSON value null) or "object"; delta is
\* "absent", "notext" (a delta without text) or "text"
BedrockChunks ==
  { BedrockChunk("none", "-", "absent", <<>>),
    BedrockChunk("garbage", "-", "absent", <<>>),
    BedrockChunk("null", "-", "absent", <<>>),
    BedrockChunk("object", "message_start", "text", <<"a">>),
    BedrockChunk("object", "content_block_start", "absent", <<>>),
    BedrockChunk("object", "content_block_stop", "text", <<"a">>),
    BedrockChunk("object", "content_block_delta", "absent", <<>>),
    BedrockChunk("object", "message_delta", "notext", <<>>) }
  \cup { BedrockChunk("object", "content_block_delta", "text", t) : t \in Texts }
  \cup { BedrockChunk("object", "message_delta", "text", <<"e_acute">>) }

\* JSON.parse(new TextDecoder().decode(chunk.chunk.bytes))
JSONparse(chunk) ==
  CASE chunk.bytes = "garbage" -> [threw |-> TRUE, isNull |-> FALSE]
    [] chunk.bytes = "null"    -> [threw |-> FALSE, isNull |-> TRUE]
    [] OTHER                   -> [threw |-> FALSE, isNull |-> FALSE]

\* parsed.delta?.text, as a condition: a text that is present and not empty
DeltaText(chunk) == chunk.delta = "text" /\ chunk.text # <<>>

\* variant: the kind of the parsed envelope is not looked at
BedrockBodyAnyKind(s, chunk) ==
  IF chunk.bytes = "none" THEN s
  ELSE LET parsed == JSONparse(chunk) IN
       IF parsed.threw \/ parsed.isNull THEN s
       ELSE IF DeltaText(chunk)
            THEN ControllerEnqueue(s, Encode(chunk.text)).s
            ELSE s

\* variant: a chunk that does not parse ends the stream with an error
BedrockBodyParseFatal(s, chunk) ==
  IF chunk.bytes = "none" THEN s
  ELSE LET parsed == JSONparse(chunk) IN
       IF parsed.threw \/ parsed.isNull THEN ControllerError(s)
       ELSE IF chunk.type \in {"message_start", "content_block_start"} THEN s
       ELSE IF chunk.type \in {"content_block_delta", "message_delta"}
               /\ DeltaText(chunk)
            THEN ControllerEnqueue(s, Encode(chunk.text)).s
            ELSE s

\* one pass of the body of `for await (const chunk of response.body)`
BedrockBody(s, chunk) ==
  IF chunk.bytes = "none" THEN s
  ELSE LET parsed == JSONparse(chunk) IN
       IF parsed.threw \/ parsed.isNull THEN s      \* caught: chunk skipped
       ELSE IF chunk.type \in {"message_start", "content_block_start"} THEN s
       ELSE IF chunk.type \in {"content_block_delta", "message_delta"}
               /\ DeltaText(chunk)
            THEN ControllerEnqueue(s, Encode(chunk.text)).s   \* a throw is caught here too
            ELSE s

\* --------------------------------------------------------- Anthropic path
AnthropicEvent(type, deltaType, text) ==
  [type |-> type, deltaType |-> deltaType, text |-> text]

AnthropicEvents ==
  { AnthropicEvent("message_start", "none", <<>>),
    AnthropicEvent("content_block_start", "none", <<>>),
    AnthropicEvent("content_block_delta", "input_json_delta", <<"a">>),
    AnthropicEvent("message_delta", "none", <<>>),
    AnthropicEvent("content_block_stop", "none", <<>>) }
  \cup { AnthropicEvent("content_block_delta", "text_delta", t) : t \in Texts }

\* variant: the kind of the delta is not looked at
AnthropicBodyAnyDelta(s, chunk) ==
  IF chunk.type = "content_block_delta"
  THEN ControllerEnqueue(s, Encode(chunk.text))
  ELSE [threw |-> FALSE, s |-> s]

\* one pass of the body of `for await (const chunk of stream)`
AnthropicBody(s, chunk) ==
  IF chunk.type = "content_block_delta" /\ chunk.deltaType = "text_delta"
  THEN ControllerEnqueue(s, Encode(chunk.text))
  ELSE [threw |-> FALSE, s |-> s]

\* ------------------------------------------------ increment and response
\* start(controller) of the Bedrock stream, up to its first await
BedrockStart(hasBody) ==
  LET s == [NoStream EXCEPT !.state = "readable"] IN
  IF hasBody THEN [s EXCEPT !.loop = "running", !.backend = "open"]
  ELSE [ControllerClose(s).s EXCEPT !.loop = "finished"]

\* start(controller) of the Anthropic stream, up to its first await
AnthropicStart ==
  [NoStream EXCEPT !.state = "readable", !.loop = "running", !.backend = "open"]

\* variant: the count is checked again when it is incremented
IncrementGenerationsChecked(r) ==
  /\ req[r].pc = "increment-generations"
  /\ \E res \in {"ok", "notok"} \cup Throws :
       LET rq == Log(req[r], "increment-generations", res) IN
       /\ dbGenerations' = IF res = "ok" /\ ~QuotaExceeded([generations |-> dbGenerations],
                                                          req[r].tierSettings)
                            THEN dbGenerations + 1 ELSE dbGenerations
       /\ req' = [req EXCEPT ![r] = IF res \in Throws THEN Catch(rq, res)
                                    ELSE Respond(rq, 200, <<"ReadableStream">>)]
       /\ stream' = [stream EXCEPT ![r] =
                       IF res \in Throws THEN @
                       ELSE IF rq.response = "stream" THEN AnthropicStart
                       ELSE BedrockStart(rq.response = "body")]
  /\ UNCHANGED <<processEnv, envAtLoad, useBedrockClient, dbTier>>

\* variant: an increment answered with a failure status is sent again
IncrementGenerationsRetry(r) ==
  /\ req[r].pc = "increment-generations"
  /\ \E res \in {"ok", "notok"} \cup Throws :
       LET rq == Log(req[r], "increment-generations", res) IN
       /\ dbGenerations' = IF res = "ok" THEN dbGenerations + 1 ELSE dbGenerations
       /\ req' = [req EXCEPT ![r] =
                    IF res \in Throws THEN Catch(rq, res)
                    ELSE IF res = "notok" /\ Made(r, "increment-generations") = 0 THEN rq
                    ELSE Respond(rq, 200, <<"ReadableStream">>)]
       /\ stream' = [stream EXCEPT ![r] =
                       IF res \in Throws \/ (res = "notok" /\ Made(r, "increment-generations") = 0)
                       THEN @
                       ELSE IF rq.response = "stream" THEN AnthropicStart
                       ELSE BedrockStart(rq.response = "body")]
  /\ UNCHANGED <<processEnv, envAtLoad, useBedrockClient, dbTier>>

\* await fetch(".../api/user/increment-generations"), then
\* return new Response(new ReadableStream({ start }))
IncrementGenerations(r) ==
  /\ req[r].pc = "increment-generations"
  /\ \E res \in {"ok", "notok"} \cup Throws :
       LET rq == Log(req[r], "increment-generations", res) IN
       /\ dbGenerations' = IF res = "ok" THEN dbGenerations + 1 ELSE dbGenerations
       /\ req' = [req EXCEPT ![r] = IF res \in Throws THEN Catch(rq, res)
                                    ELSE Respond(rq, 200, <<"ReadableStream">>)]
       /\ stream' = [stream EXCEPT ![r] =
                       IF res \in Throws THEN @
                       ELSE IF rq.response = "stream" THEN AnthropicStart
                       ELSE BedrockStart(rq.response = "body")]
  /\ UNCHANGED <<processEnv, envAtLoad, useBedrockClient, dbTier>>

\* ------------------------------------------------------- the stream loops
Running(r, response) ==
  /\ req[r].response = response
  /\ stream[r].loop = "running"
  /\ stream[r].backend = "open"

\* the backend yields a chunk
BedrockNext(r) ==
  /\ Running(r, "body")
  /\ Len(stream[r].seen) < MaxChunks
  /\ \E chunk \in BedrockChunks :
       stream' = [stream EXCEPT ![r] =
                    [BedrockBody(@, chunk) EXCEPT !.seen = Append(@, chunk)]]
  /\ UNCHANGED <<processEnv, envAtLoad, useBedrockClient, dbTier, dbGenerations, req>>

\* the backend stream ends: controller.close(); a throw of close() lands in
\* the catch clause
BedrockEnd(r) ==
  /\ Running(r, "body")
  /\ LET closed == ControllerClose([stream[r] EXCEPT !.backend = "ended"])
         s == IF closed.threw THEN ControllerError(closed.s) ELSE closed.s
     IN stream' = [stream EXCEPT ![r] = [s EXCEPT !.loop = "finished"]]
  /\ UNCHANGED <<processEnv, envAtLoad, useBedrockClient, dbTier, dbGenerations, req>>

\* variant: the stream is closed as well, after the error was signalled
BedrockFailThenClose(r) ==
  /\ Running(r, "body")
  /\ stream' = [stream EXCEPT ![r] =
                  [ControllerClose(ControllerError([@ EXCEPT !.backend = "failed"])).s
                     EXCEPT !.loop = "finished"]]
  /\ UNCHANGED <<processEnv, envAtLoad, useBedrockClient, dbTier, dbGenerations, req>>

\* the backend stream fails: controller.error(error)
BedrockFail(r) ==
  /\ Running(r, "body")
  /\ stream' = [stream EXCEPT ![r] =
                  [ControllerError([@ EXCEPT !.backend = "failed"])
                     EXCEPT !.loop = "finished"]]
  /\ UNCHANGED <<processEnv, envAtLoad, useBedrockClient, dbTier, dbGenerations, req>>

\* the backend yields an event; a throw of enqueue() leaves the loop, which
\* returns the iterator, and lands in the catch clause
AnthropicNext(r) ==
  /\ Running(r, "stream")
  /\ Len(stream[r].seen) < MaxChunks
  /\ \E chunk \in AnthropicEvents :
       LET got == AnthropicBody([stream[r] EXCEPT !.seen = Append(@, chunk)], chunk) IN
       stream' = [stream EXCEPT ![r] =
                    IF got.threw
                    THEN [ControllerError(got.s) EXCEPT !.backend = "aborted",
                                                        !.loop = "finished"]
                    ELSE got.s]
  /\ UNCHANGED <<processEnv, envAtLoad, useBedrockClient, dbTier, dbGenerations, req>>

AnthropicEnd(r) ==
  /\ Running(r, "stream")
  /\ LET closed == ControllerClose([stream[r] EXCEPT !.backend = "ended"])
         s == IF closed.threw THEN ControllerError(closed.s) ELSE closed.s
     IN stream' = [stream EXCEPT ![r] = [s EXCEPT !.loop = "finished"]]
  /\ UNCHANGED <<processEnv, envAtLoad, useBedrockClient, dbTier, dbGenerations, req>>

AnthropicFail(r) ==
  /\ Running(r, "stream")
  /\ stream' = [stream EXCEPT ![r] =
                  [ControllerError([@ EXCEPT !.backend = "failed"])
                     EXCEPT !.loop = "finished"]]
  /\ UNCHANGED <<processEnv, envAtLoad, useBedrockClient, dbTier, dbGenerations, req>>

\* ------------------------------------------------------------- the caller
\* the consumer of the response body reads one fragment (under Spec the
\* caller reads or waits; it never cancels the body)
Read(r) ==
  /\ stream[r].state = "readable"
  /\ stream[r].queue # <<>>
  /\ LET s == stream[r]
         rest == Tail(s.queue)
     IN stream' = [stream EXCEPT ![r] =
                     [s EXCEPT !.queue = rest,
                               !.delivered = Append(@, Head(s.queue)),
                               !.state = IF s.closeRequested /\ rest = <<>>
                                         THEN "closed" ELSE "readable"]]
  /\ UNCHANGED <<processEnv, envAtLoad, useBedrockClient, dbTier, dbGenerations, req>>

\* the caller disconnects: the response body is cancelled. The stream is
\* built without a cancel callback and the backend calls get no abort
\* signal, so cancelling only closes the output stream and empties its queue.
Cancel(r) ==
  /\ stream[r].state = "readable"
  /\ stream' = [stream EXCEPT ![r] =
                  [@ EXCEPT !.state = "closed", !.queue = <<>>,
                            !.cancelled = TRUE,
                            !.seenAtCancel = Len(stream[r].seen)]]
  /\ UNCHANGED <<processEnv, envAtLoad, useBedrockClient, dbTier, dbGenerations, req>>

\* ------------------------------------------------------------ specification
Next ==
  \E r \in Reqs :
    \/ CurrentUser(r)
    \/ CheckReset(r)
    \/ FetchUser(r)
    \/ UserJson(r)
    \/ RequestJson(r)
    \/ BedrockSend(r)
    \/ AnthropicCreate(r)
    \/ IncrementGenerations(r)
    \/ BedrockNext(r)
    \/ BedrockEnd(r)
    \/ BedrockFail(r)
    \/ AnthropicNext(r)
    \/ AnthropicEnd(r)
    \/ AnthropicFail(r)
    \/ Read(r)

Spec == Init /\ [][Next]_vars

\* the handler up to its response, without the stream loops
NextHandler ==
  \E r \in Reqs :
    \/ CurrentUser(r)
    \/ CheckReset(r)
    \/ FetchUser(r)
    \/ UserJson(r)
    \/ RequestJson(r)
    \/ BedrockSend(r)
    \/ AnthropicCreate(r)
    \/ IncrementGenerations(r)

\* a credential is set or unset while the process runs
EnvChange(c) ==
  /\ processEnv' = IF c \in processEnv THEN processEnv \ {c} ELSE processEnv \cup {c}
  /\ UNCHANGED <<envAtLoad, useBedrockClient, dbTier, dbGenerations, req, stream>>

\* the handler in a process loaded in any environment, whose environment
\* changes afterwards
InitEnv == Start(SUBSET Credentials, {"r1"}, SampleBodies)

NextEnv ==
  \/ NextHandler
  \/ \E c \in Credentials : EnvChange(c)

SpecEnv == InitEnv /\ [][NextEnv]_vars

\* two requests of the same user, up to their responses
InitRace == Start(LoadEnvs, Reqs, SampleBodies)

SpecRace == InitRace /\ [][NextHandler]_vars

\* the request after the gate has let it pass
PastGate(body) ==
  [InitReq EXCEPT !.pc = "request.json",
                  !.calls = <<Call("currentUser", "user"), Call("check-reset", "ok"),
                              Call("user", "record"), Call("gate", "pass")>>,
                  !.dbUser = "record",
                  !.userData = [tier |-> "FREE", generations |-> 0],
                  !.tierSettings = TierLookup("FREE"),
                  !.body = body]

\* the prompt of a request that has passed the gate, for every file tree
InitFormat ==
  /\ processEnv = {}
  /\ envAtLoad = processEnv
  /\ useBedrockClient = AllCredentials(processEnv)
  /\ dbTier = "FREE"
  /\ dbGenerations = 0
  /\ \E body \in FormatBodies :
       req = [r \in Reqs |-> IF r = "r1" THEN PastGate(body) ELSE NoRequest]
  /\ stream = [r \in Reqs |-> NoStream]

NextFormat == \E r \in Reqs : RequestJson(r)

SpecFormat == InitFormat /\ [][NextFormat]_vars

\* the handler up to its response, for every conversation
InitDispatch == Start(LoadEnvs, {"r1"}, DispatchBodies)

SpecDispatch == InitDispatch /\ [][NextHandler]_vars

\* the same program with a caller that may disconnect
NextCancel ==
  \/ Next
  \/ \E r \in Reqs : Cancel(r)

SpecCancel == Init /\ [][NextCancel]_vars

\* =================================================================== claims
Results(r, op) == { req[r].calls[i].result : i \in { j \in 1..Len(req[r].calls) : req[r].calls[j].op = op } }
Statuses(r) == [i \in 1..Len(req[r].responses) |-> req[r].responses[i].status]
BackendCalls(r) == Made(r, "bedrock.send") + Made(r, "anthropic.create")
Opened(r) == \E res \in {"body", "nobody", "stream"} :
               res \in Results(r, "bedrock.send") \cup Results(r, "anthropic.create")

\* the generation limit a tier name stands for: FREE's for a name that is
\* unknown or missing
LimitOf(tier) ==
  CASE tier = "FREE" -> TIERS.FREE.generations
    [] tier = "PRO"  -> TIERS.PRO.generations
    [] OTHER         -> TIERS.FREE.generations

\* the usage record of request r has been fetched and read
RecordRead(r) == req[r].dbUser = "record" /\ req[r].pc # "json"

\* C1: a request whose fetched usage record has a generation count at or above
\* the limit of the record's tier (FREE's limit for an unknown or missing tier)
\* is answered 429, and makes no backend call and no increment call.
C1_QuotaRejects ==
  \A r \in Reqs :
    (/\ RecordRead(r)
     /\ req[r].userData.generations >= LimitOf(req[r].userData.tier))
    => /\ Statuses(r) = <<429>>
       /\ req[r].pc = "done"
       /\ BackendCalls(r) = 0
       /\ Made(r, "increment-generations") = 0
       /\ stream[r] = NoStream

\* a rejected request whose record names a tier TIERS does not hold, and one
\* that sits exactly on a known tier's limit
C1_Witness ==
  \E r \in Reqs :
    /\ RecordRead(r)
    /\ Statuses(r) = <<429>>
    /\ req[r].userData.tier = "GOLD"
    /\ req[r].userData.generations = TIERS.FREE.generations

\* C2: when identity resolution yields no user the request is answered 401
\* "Unauthorized" and nothing else happens in it: no check-reset call, no user
\* fetch, no backend call, no increment call, no stream.
C2_Unauthorized ==
  \A r \in Reqs :
    "null" \in Results(r, "currentUser")
    => /\ req[r].responses = <<[status |-> 401, body |-> <<"Unauthorized">>]>>
       /\ req[r].pc = "done"
       /\ Ops(req[r].calls) = <<"currentUser">>
       /\ stream[r] = NoStream

C2_Witness ==
  \E r \in Reqs : "null" \in Results(r, "currentUser") /\ req[r].pc = "done"

\* position of the backend call in the log of r, 0 if there is none
BackendIndex(r) ==
  LET ops == Ops(req[r].calls) IN
  IF Index(ops, "bedrock.send") # 0 THEN Index(ops, "bedrock.send")
  ELSE Index(ops, "anthropic.create")

\* C3 as stated: every execution of a request evaluates the quota comparison
\* exactly once, before any backend call, and issues at most one backend call.
C3_Original ==
  \A r \in Reqs :
    /\ req[r].pc = "done" => Made(r, "gate") = 1
    /\ BackendCalls(r) <= 1
    /\ BackendCalls(r) = 1 => Index(Ops(req[r].calls), "gate") < BackendIndex(r)

\* C3, amended: no request evaluates the quota comparison more than once; a
\* request that got its usage record (identity resolved, check-reset and user
\* fetch returned, body read as JSON) evaluates it exactly once; a backend call
\* comes strictly after that one evaluation, which passed; and a request issues
\* at most one backend call, never both backends.
C3_GateOnceBeforeBackend ==
  \A r \in Reqs :
    /\ Made(r, "gate") <= 1
    /\ Made(r, "gate") =
         IF req[r].dbUser \in {"record", "errorBody"} /\ req[r].pc # "json"
         THEN 1 ELSE 0
    /\ BackendCalls(r) <= 1
    /\ BackendCalls(r) = 1 =>
         /\ Made(r, "gate") = 1
         /\ Index(Ops(req[r].calls), "gate") < BackendIndex(r)
         /\ Results(r, "gate") = {"pass"}

C3_Witness ==
  \E r \in Reqs :
    /\ BackendCalls(r) = 1
    /\ Made(r, "gate") = 1
    /\ req[r].pc = "done"
    /\ Results(r, "bedrock.send") \cap Throws # {}

\* C4: a request that passed the gate and whose backend call opened a stream
\* makes exactly one increment call, whatever that call answers; a request
\* whose backend call did not open a stream, or that the gate rejected, makes
\* none.
C4_OneIncrement ==
  \A r \in Reqs :
    /\ Made(r, "increment-generations") <= 1
    /\ (Opened(r) /\ req[r].pc = "done") => Made(r, "increment-generations") = 1
    /\ ~Opened(r) => Made(r, "increment-generations") = 0
    /\ "exceeded" \in Results(r, "gate") => Made(r, "increment-generations") = 0

\* a dispatched request whose one increment call failed and was not repeated
C4_Witness ==
  \E r \in Reqs :
    /\ Opened(r)
    /\ req[r].pc = "done"
    /\ Results(r, "increment-generations") = {"notok"}
    /\ Made(r, "increment-generations") = 1

\* C5 as stated: after a successful dispatch, a failed increment call (one that
\* throws or answers a failure status) leaves the response a 200 stream.
C5_IncrementFailureHarmless ==
  \A r \in Reqs :
    (/\ Opened(r)
     /\ req[r].pc = "done"
     /\ Results(r, "increment-generations") \cap ({"notok"} \cup Throws) # {})
    => /\ Statuses(r) = <<200>>
       /\ stream[r].state # "none"

\* C6 as stated: a failed check-reset call (one that throws or answers a
\* failure status) does not end the request: the usage record is still
\* fetched.
C6_ResetFailureHarmless ==
  \A r \in Reqs :
    (/\ Results(r, "check-reset") \cap ({"notok"} \cup Throws) # {}
     /\ req[r].pc = "done")
    => Made(r, "user") = 1

\* ------------------------------------------------------------ stream claims
IsPrefix(p, q) == Len(p) <= Len(q) /\ SubSeq(q, 1, Len(p)) = p

\* the text payload a Bedrock chunk carries as a content_block_delta or a
\* message_delta; the empty text for every other chunk
PayloadText(chunk) ==
  IF /\ chunk.bytes = "object"
     /\ chunk.type \in {"content_block_delta", "message_delta"}
     /\ chunk.delta = "text"
  THEN chunk.text ELSE <<>>

PayloadTexts(seen) == [i \in 1..Len(seen) |-> PayloadText(seen[i])]
NonEmpty(x) == x # <<>>

\* C7: on the Bedrock path the fragments forwarded so far, concatenated, are
\* the concatenation of the text payloads of the content_block_delta and
\* message_delta chunks received so far, in arrival order; each fragment is
\* the text of one such chunk, and the caller reads them in that order, all of
\* them once the stream has closed.
C7_BedrockFragments ==
  \A r \in Reqs :
    req[r].response = "body" =>
      LET s == stream[r]
          texts == PayloadTexts(s.seen)
          kept == SelectSeq(texts, NonEmpty)
      IN /\ Flatten(s.enqueued) = Encode(Flatten(texts))
         /\ s.enqueued = [i \in 1..Len(kept) |-> Encode(kept[i])]
         /\ IsPrefix(s.delivered, s.enqueued)
         /\ s.state = "closed" => s.delivered = s.enqueued

\* a closed Bedrock stream that got a chunk of another kind carrying a text
\* and a delta chunk, and delivered the delta's fragment only
C7_Witness ==
  \E r \in Reqs :
    /\ req[r].response = "body"
    /\ stream[r].state = "closed"
    /\ Len(stream[r].seen) = 2
    /\ stream[r].seen[1].type = "content_block_stop"
    /\ stream[r].seen[2].type = "message_delta"
    /\ stream[r].delivered = <<Encode(<<"e_acute">>)>>

\* the fragments the chunks after position i have to produce
FragmentsAfter(seen, i) ==
  LET kept == SelectSeq(PayloadTexts(SubSeq(seen, i + 1, Len(seen))), NonEmpty)
  IN [k \in 1..Len(kept) |-> Encode(kept[k])]

IsSuffix(p, q) == Len(p) <= Len(q) /\ SubSeq(q, Len(q) - Len(p) + 1, Len(q)) = p

\* C8: on the Bedrock path a chunk that is not JSON is skipped: the stream is
\* not errored and not closed because of it, the loop goes on while the
\* backend stream is open, every delta chunk that arrives after it is emitted,
\* and the stream closes normally when the backend stream ends.
C8_MalformedChunkSkipped ==
  \A r \in Reqs :
    req[r].response = "body" =>
      LET s == stream[r] IN
      \A i \in 1..Len(s.seen) :
        s.seen[i].bytes = "garbage" =>
          /\ s.state = "errored" => s.backend = "failed"
          /\ s.closeRequested => s.backend = "ended"
          /\ s.backend = "open" => s.loop = "running" /\ CanCloseOrEnqueue(s)
          /\ IsSuffix(FragmentsAfter(s.seen, i), s.enqueued)
          /\ s.backend = "ended" =>
               /\ SelectSeq(s.ctrl, LAMBDA c : c # "enqueue") = <<"close">>
               /\ s.state = IF s.queue = <<>> THEN "closed" ELSE "readable"

\* a malformed chunk followed by a delta chunk whose fragment was delivered
\* before the stream closed
C8_Witness ==
  \E r \in Reqs :
    /\ req[r].response = "body"
    /\ Len(stream[r].seen) = 2
    /\ stream[r].seen[1].bytes = "garbage"
    /\ stream[r].seen[2].type = "content_block_delta"
    /\ stream[r].delivered = <<Encode(<<"a">>)>>
    /\ stream[r].state = "closed"

\* the controller's terminal calls, in order
Terminal(ctrl) == SelectSeq(ctrl, LAMBDA c : c # "enqueue")

\* the terminal call that belongs to a state of the backend stream
SignalFor(backend) ==
  CASE backend = "ended"  -> <<"close">>
    [] backend = "failed" -> <<"error">>
    [] OTHER              -> <<>>

IsTextDelta(event) == event.type = "content_block_delta" /\ event.deltaType = "text_delta"

\* C9: on the Anthropic path a fragment is emitted for an event exactly when
\* the event is a content_block_delta whose delta is a text delta; the
\* fragments are those texts, one per event, in arrival order; and the end and
\* the failure of the backend stream are signalled as on the Bedrock path:
\* one close for the end, one error for the failure.
C9_AnthropicFragments ==
  \A r \in Reqs :
    /\ req[r].response = "stream" =>
         LET s == stream[r]
             deltas == SelectSeq(s.seen, IsTextDelta)
         IN /\ s.enqueued = [i \in 1..Len(deltas) |-> Encode(deltas[i].text)]
            /\ Len(s.enqueued) = Cardinality({i \in 1..Len(s.seen) : IsTextDelta(s.seen[i])})
            /\ IsPrefix(s.delivered, s.enqueued)
    /\ req[r].response \in {"stream", "body"} =>
         LET s == stream[r] IN
         /\ Terminal(s.ctrl) = SignalFor(s.backend)
         /\ s.backend = "failed" => s.state = "errored"
         /\ s.backend = "ended" => s.state = IF s.queue = <<>> THEN "closed" ELSE "readable"
         /\ s.backend = "open" => s.state = "readable" /\ ~s.closeRequested

\* an Anthropic stream that failed after an event that is no text delta and a
\* text delta, whose text was read before the failure
C9_Witness ==
  \E r \in Reqs :
    /\ req[r].response = "stream"
    /\ stream[r].backend = "failed"
    /\ Len(stream[r].seen) = 2
    /\ stream[r].seen[1].deltaType = "input_json_delta"
    /\ IsTextDelta(stream[r].seen[2])
    /\ stream[r].delivered = <<Encode(stream[r].seen[2].text)>>
    /\ stream[r].state = "errored"

\* what C10 says of every output stream but its last clause
TerminatesOnce(s) ==
  /\ Len(Terminal(s.ctrl)) <= 1
  /\ s.loop = "finished" => Len(Terminal(s.ctrl)) = 1
  /\ Terminal(s.ctrl) = <<"close">> <=> s.backend \in {"ended", "none"}
  /\ Terminal(s.ctrl) = <<"error">> <=> s.backend = "failed"
  /\ s.state = "errored" <=> Terminal(s.ctrl) = <<"error">>
  /\ s.state = "closed" => Terminal(s.ctrl) = <<"close">>
  /\ Terminal(s.ctrl) # <<>> => s.ctrl[Len(s.ctrl)] # "enqueue"

C11_CancelStopsBackend ==
  \A r \in Reqs :
    stream[r].cancelled => Len(stream[r].seen) = stream[r].seenAtCancel

\* ------------------------------------------------------------ backpressure
\* the high-water mark of a ReadableStream built without a queuing strategy:
\* the stream asks its source for more only while fewer chunks are queued
HighWaterMark == 1

\* C12 as stated: the gateway does not pull further backend chunks while the
\* caller has not consumed the fragments already forwarded, so the fragments
\* queued for a slow caller never exceed the stream's high-water mark,
\* however long the answer is.
C12_QueueBounded ==
  \A r \in Reqs : Len(stream[r].queue) <= HighWaterMark

\* -------------------------------------------------------- backend selection
\* C13: the backend is Bedrock exactly when all four credentials were set
\* when the module was loaded, and Anthropic when any one was missing; the
\* choice is made once, and every request calls that backend whatever the
\* credentials are by then.
C13_BackendChosenOnce ==
  /\ useBedrockClient <=> envAtLoad = Credentials
  /\ \A r \in Reqs :
       /\ req[r].pc = "bedrock.send" \/ Made(r, "bedrock.send") > 0
            => envAtLoad = Credentials
       /\ req[r].pc = "anthropic.create" \/ Made(r, "anthropic.create") > 0
            => envAtLoad # Credentials

\* a Bedrock call in a process whose credentials have all gone since it was
\* loaded
C13_Witness ==
  \E r \in Reqs :
    /\ Made(r, "bedrock.send") = 1
    /\ envAtLoad = Credentials
    /\ processEnv = {}

\* ------------------------------------------------------- concurrent requests
\* request r read a usage record whose count is one below its tier's limit,
\* passed the gate on it, and its increment was carried out; the count was not
\* reset for it
RacedThrough(r) ==
  /\ RecordRead(r)
  /\ req[r].userData.generations = LimitOf(req[r].userData.tier) - 1
  /\ "pass" \in Results(r, "gate")
  /\ "reset" \notin Results(r, "check-reset")
  /\ "ok" \in Results(r, "increment-generations")

\* C14: the gate and the increment are not one atomic step: when two requests
\* of one user both read a count one below the limit, both pass the gate, and
\* both increments are carried out, so that the count ends above the limit.
C14_RaceExceedsLimit ==
  \A r1, r2 \in Reqs :
    r1 # r2 /\ RacedThrough(r1) /\ RacedThrough(r2)
      => dbGenerations > LimitOf(dbTier)

\* both requests went through on a count one below the limit
C14_Witness ==
  /\ RacedThrough("r1")
  /\ RacedThrough("r2")
  /\ dbGenerations = LimitOf(dbTier) + 1

\* ------------------------------------------------------------- responses
\* the last call request r made
LastCall(r) == req[r].calls[Len(req[r].calls)]

\* the response that the call the handler ended on stands for
ResponseFor(call) ==
  CASE call.result = "throw"      -> [status |-> 500, body |-> <<"error.message">>]
    [] call.result = "throwValue" -> [status |-> 500, body |-> <<"Internal Server Error">>]
    [] call.op = "currentUser" /\ call.result = "null"
                                  -> [status |-> 401, body |-> <<"Unauthorized">>]
    [] call.op = "gate" /\ call.result = "exceeded"
                                  -> [status |-> 429, body |-> LimitReached(call.tier)]
    [] OTHER                      -> [status |-> 200, body |-> <<"ReadableStream">>]

\* the handler of request r can take a step
HandlerStep(r) ==
  \/ CurrentUser(r)
  \/ CheckReset(r)
  \/ FetchUser(r)
  \/ UserJson(r)
  \/ RequestJson(r)
  \/ BedrockSend(r)
  \/ AnthropicCreate(r)
  \/ IncrementGenerations(r)

\* C15: a request that has ended has exactly one response, and one that has
\* not ended has none and can go on; the response is 401 after a missing
\* identity, 429 after a gate that rejected, 200 with the stream after the
\* increment call, and 500 with the error's message (the generic message for a
\* thrown value that is no Error) after any call that threw; a call that threw
\* is the last call of its request.
C15_OneResponse ==
  \A r \in Reqs :
    LET rq == req[r] IN
    /\ Len(rq.responses) = IF rq.pc = "done" THEN 1 ELSE 0
    /\ rq.pc \notin {"done", "none"} => ENABLED HandlerStep(r)
    /\ \A i \in 1..Len(rq.calls) :
         rq.calls[i].result \in Throws => i = Len(rq.calls) /\ rq.pc = "done"
    /\ rq.pc = "done" =>
         /\ rq.responses[1] =
              ResponseFor([op |-> LastCall(r).op, result |-> LastCall(r).result,
                           tier |-> rq.userData.tier])
         /\ rq.responses[1].status = 200 <=> stream[r].state # "none"
         /\ rq.responses[1].status = 429 <=> LastCall(r) = Call("gate", "exceeded")
         /\ rq.responses[1].status = 200 <=> LastCall(r).op = "increment-generations"
                                             /\ LastCall(r).result \notin Throws

\* a request answered 500 with the message of the error that a call after the
\* gate threw, and with no stream
C15_Witness ==
  \E r \in Reqs :
    /\ req[r].pc = "done"
    /\ "pass" \in Results(r, "gate")
    /\ LastCall(r).result = "throw"
    /\ req[r].responses = <<[status |-> 500, body |-> <<"error.message">>]>>
    /\ stream[r] = NoStream

\* ------------------------------------------------------------ file listing
\* the prompt of request r has been built from a file tree
Formatted(r) ==
  /\ req[r].command # NoCommand
  /\ req[r].body.template
  /\ req[r].body.files # NoItems

\* what a line of the listing shows
IsFolderLine(line) == line # <<>> /\ line[Len(line)] = "/"
IsFileLine(line) == line # <<>> /\ line[Len(line)] # "/"
Depth(line) == Count(line, Indent)
LineName(line) ==
  SubSeq(line, Index(line, Branch) + 1,
         IF IsFolderLine(line) THEN Len(line) - 1 ELSE Len(line))

\* the nodes of a tree that are not ignored and lie in no ignored folder
RECURSIVE Retained(_)
Retained(items) ==
  IF items = <<>> THEN 0
  ELSE LET item == Head(items)
       IN (CASE item.type = "file" /\ ~IgnoredFile(item.name) -> 1
             [] item.type = "folder" /\ ~IgnoredFolder(item.name) -> 1 + Retained(item.children)
             [] OTHER -> 0)
          + Retained(Tail(items))

RECURSIVE NodeCount(_)
NodeCount(items) ==
  IF items = <<>> THEN 0
  ELSE 1 + NodeCount(Head(items).children) + NodeCount(Tail(items))

\* lines i and j of a listing are entries of the same folder
Siblings(text, i, j) ==
  /\ text[i] # <<>> /\ text[j] # <<>>
  /\ Depth(text[i]) = Depth(text[j])
  /\ \A k \in (i + 1)..(j - 1) : text[k] = <<>> \/ Depth(text[k]) >= Depth(text[i])

\* C16: in the listing of a file tree no file line comes before a folder line
\* of the same folder, no line shows an ignored folder or a file whose name
\* equals an ignored pattern or ends with the pattern without its wildcard,
\* the lines are as many as the nodes that are not ignored and lie in no
\* ignored folder, and the listing of a tree with no such node is the empty
\* string.
C16_FoldersFirstIgnoredLeftOut ==
  \A r \in Reqs :
    Formatted(r) =>
      LET text == req[r].systemMessage.templateContext
          files == req[r].body.files
      IN /\ \A i, j \in 1..Len(text) :
              i < j /\ Siblings(text, i, j)
                => ~(IsFileLine(text[i]) /\ IsFolderLine(text[j]))
         /\ \A i \in 1..Len(text) :
              /\ IsFolderLine(text[i]) => ~IgnoredFolder(LineName(text[i]))
              /\ IsFileLine(text[i]) => ~IgnoredFile(LineName(text[i]))
         /\ Cardinality({ i \in 1..Len(text) : text[i] # <<>> }) = Retained(files)
         /\ Retained(files) = 0 => text = EmptyString

\* the listing of a tree that has a file ahead of a folder, both shown, and
\* nodes that are left out
C16_Witness ==
  \E r \in Reqs :
    /\ Formatted(r)
    /\ LET files == req[r].body.files
       IN /\ \E i, j \in 1..Len(files) :
               /\ i < j
               /\ files[i].type = "file" /\ ~IgnoredFile(files[i].name)
               /\ files[j].type = "folder" /\ ~IgnoredFolder(files[j].name)
               /\ Len(files[j].children) > 1
          /\ Retained(files) > 2
          /\ Retained(files) < NodeCount(files)

\* the listing of a tree whose every entry is left out
C16_WitnessFiltered ==
  \E r \in Reqs :
    /\ Formatted(r)
    /\ req[r].body.files # <<>>
    /\ req[r].systemMessage.templateContext = EmptyString

\* ------------------------------------------------------------ backend call
\* the model identifier and the temperature that a backend call carries
ModelOf(command) ==
  IF command.backend = "bedrock" THEN command.modelId ELSE command.model
TemperatureOf(command) ==
  IF "temperature" \in DOMAIN command THEN command.temperature ELSE Undefined

\* C17 as stated: the call that is sent to either backend carries the model
\* identifier and the maximum of output tokens of the tier settings that the
\* gate resolved, the fixed temperature, and the turns of the conversation in
\* their order, with role human as user and every other role as assistant.
C17_CallCarriesTierSettings ==
  \A r \in Reqs :
    req[r].command # NoCommand =>
      LET command == req[r].command
          settings == req[r].tierSettings
          messages == req[r].body.messages
      IN /\ ModelOf(command) = settings.anthropicModel
         /\ command.max_tokens = settings.maxTokens
         /\ TemperatureOf(command) = Temperature
         /\ IsSuffix([i \in 1..Len(messages) |->
                        [role |-> IF messages[i].role = "human" THEN "user"
                                  ELSE "assistant",
                         content |-> <<"turn", i>>]],
                     command.messages)

\* what the calls do carry: on both paths the tier's maximum of output tokens
\* and the turns in order with their roles mapped; the tier's model only on
\* the Anthropic path, the temperature only on the Bedrock path
C17_CallAsSent ==
  \A r \in Reqs :
    req[r].command # NoCommand =>
      LET command == req[r].command
          settings == req[r].tierSettings
          messages == req[r].body.messages
      IN /\ command.max_tokens = settings.maxTokens
         /\ IsSuffix([i \in 1..Len(messages) |->
                        [role |-> IF messages[i].role = "human" THEN "user"
                                  ELSE "assistant",
                         content |-> <<"turn", i>>]],
                     command.messages)
         /\ command.backend = "anthropic" =>
              /\ command.model = settings.anthropicModel
              /\ TemperatureOf(command) = Undefined
         /\ command.backend = "bedrock" =>
              /\ command.modelId \in {"process.env.AWS_ARN", "undefined"}
              /\ command.temperature = Temperature

\* ---------------------------------------------------------- failed dispatch
\* the backend call of request r threw
DispatchFailed(r) ==
  (Results(r, "bedrock.send") \cup Results(r, "anthropic.create")) \cap Throws # {}

\* C18: a request whose backend call threw is answered 500 with the error's
\* message or the generic message, has made no increment call, and has no
\* output stream.
C18_FailedDispatchNotCounted ==
  \A r \in Reqs :
    DispatchFailed(r) =>
      /\ req[r].pc = "done"
      /\ Statuses(r) = <<500>>
      /\ req[r].responses[1].body \in {<<"error.message">>, <<"Internal Server Error">>}
      /\ Made(r, "increment-generations") = 0
      /\ stream[r] = NoStream

\* a failed Anthropic call of a request that had passed the gate on a record
C18_Witness ==
  \E r \in Reqs :
    /\ "throw" \in Results(r, "anthropic.create")
    /\ RecordRead(r)
    /\ Statuses(r) = <<500>>
    /\ dbGenerations = req[r].userData.generations

\* ------------------------------------------------- order of the increment
\* position of the increment call in the log of r, 0 if there is none
IncrementIndex(r) == Index(Ops(req[r].calls), "increment-generations")

\* C19: in the log of a request the increment call comes after a backend call
\* that returned; no backend chunk is consumed, no fragment is forwarded and no
\* stream exists before the increment call has completed; and the 200 response
\* is returned when the increment call has completed without throwing.
C19_IncrementBeforeStream ==
  \A r \in Reqs :
    /\ (req[r].pc = "increment-generations" \/ Made(r, "increment-generations") > 0)
         => /\ Opened(r)
            /\ stream[r] = NoStream <=>
                 (req[r].pc = "increment-generations"
                    \/ Results(r, "increment-generations") \cap Throws # {})
    /\ Made(r, "increment-generations") > 0
         => /\ BackendIndex(r) # 0
            /\ BackendIndex(r) < IncrementIndex(r)
            /\ IncrementIndex(r) = Len(req[r].calls)
    /\ Made(r, "increment-generations") = 0
         => /\ stream[r] = NoStream
            /\ 200 \notin { req[r].responses[i].status : i \in 1..Len(req[r].responses) }
    /\ (stream[r].seen # <<>> \/ stream[r].enqueued # <<>> \/ stream[r].ctrl # <<>>)
         => /\ Results(r, "increment-generations") \cap {"ok", "notok"} # {}
            /\ Statuses(r) = <<200>>

\* a fragment forwarded on the Bedrock path after an increment that was
\* carried out
C19_Witness ==
  \E r \in Reqs :
    /\ "body" \in Results(r, "bedrock.send")
    /\ Results(r, "increment-generations") = {"ok"}
    /\ stream[r].seen # <<>>
    /\ stream[r].enqueued # <<>>

\* ------------------------------------------------------ gate without a count
\* the user fetch of request r answered with a JSON body that is no usage
\* record, so that userData.generations is undefined
CountMissing(r) == req[r].dbUser = "errorBody" /\ req[r].pc # "json"

\* C20: a request whose fetched user data carries no generation count is not
\* rejected by the gate, whatever the stored count is: the comparison is
\* false, the FREE settings are used, and the request goes on to the backend
\* call and, when that call returns, to the increment.
C20_GateFailsOpen ==
  \A r \in Reqs :
    CountMissing(r) =>
      /\ req[r].userData = NoRecord
      /\ Results(r, "gate") = {"pass"}
      /\ req[r].tierSettings = TIERS.FREE
      /\ 429 \notin { req[r].responses[i].status : i \in 1..Len(req[r].responses) }
      /\ req[r].pc = "done" =>
           \/ Statuses(r) = <<200>> /\ Made(r, "increment-generations") = 1
           \/ Statuses(r) = <<500>> /\ LastCall(r).result \in Throws

\* a request of a user whose stored count is at the limit of the stored tier,
\* let through on a body without a count, and counted once more
C20_Witness ==
  \E r \in Reqs :
    /\ CountMissing(r)
    /\ Statuses(r) = <<200>>
    /\ BackendCalls(r) = 1
    /\ Results(r, "increment-generations") = {"ok"}
    /\ "reset" \notin Results(r, "check-reset")
    /\ dbGenerations = LimitOf(dbTier) + 1
====
